---- MODULE Spec2Model ----
(***************************************************************************)
(* Model of 4_calculate_betting_statistics.py: the bounded lookback for    *)
(* the newest prediction file, the merge of that file into the combined    *)
(* predictions ledger, the reconciliation of the ledger with the games     *)
(* data, the scoring and the persisting of the snapshot.                   *)
(*                                                                         *)
(* Dates are day numbers.  A file system directory is a function from the  *)
(* date in the file name to the rows of the file.  pandas semantics are    *)
(* those of pandas 2.x, the line the script runs on.                       *)
(***************************************************************************)
EXTENDS Integers, Sequences, FiniteSets, TLC

\* ---------------------------------------------------------------- constants
MAX_DAYS_BACK == 120
CURRENT_SEASON == 2025

\* ------------------------------------------------------------------- bounds
MaxDay == 4
MaxPredFiles == 2
MaxStatFiles == 1
MaxBatchLen == 2
MaxRecords == 2
LocatorDays == 2

\* ------------------------------------------------------------- cell values
\* a missing value (np.nan) in a numeric column
NaN == -1
\* a home_team_prob cell that holds no number (pd.read_csv leaves it a string)
NonNumeric == NaN - 1
\* a missing value in the result column
NA == "<NA>"

VARIABLES
    today,              \* the date of the run (module level `today`)
    predFiles,          \* PREDICTION_DIR/nba_games_predict_{date}.csv
    statFiles,          \* STAT_DIR/nba_games_{date}.csv
    combinedFiles,      \* PREDICTION_DIR/combined_nba_predictions_acc_{date}.csv
    pc,                 \* position of main()
    days_back,          \* the counter of the lookback loop
    file_found,
    date_to_check,      \* <<>> or <<d>>: the date the loop tested last ("Checking date:")
    predict_file,       \* <<>> for None, <<d>> for [path of the file of date d]
    last_prediction,    \* <<>> for None, <<d>> for the date string
    combined_file_path, \* <<>> or <<d>>: the snapshot process_prediction_file reads
    combined_df,
    most_recent_date,   \* <<>> for None, <<d>>
    daily_games_df,
    idx,                \* position of the iterrows() loop
    season_2025_df,
    overall_accuracy,   \* [sum, count]: the mean sum/count, NaN when count = 0
    save_file_path      \* <<>> or <<d>>: the snapshot update_betting_statistics writes

vars == <<today, predFiles, statFiles, combinedFiles, pc, days_back, file_found,
          date_to_check, predict_file, last_prediction, combined_file_path, combined_df, most_recent_date,
          daily_games_df, idx, season_2025_df, overall_accuracy, save_file_path>>

fsVars == <<predFiles, statFiles, combinedFiles>>
runVars == <<days_back, file_found, date_to_check, predict_file, last_prediction,
             combined_file_path, combined_df,
             most_recent_date, daily_games_df, idx, season_2025_df, overall_accuracy,
             save_file_path>>

NoMean == [sum |-> 0, count |-> 0]

\* -------------------------------------------------------------- the lookback
\* line 36: yesterday = today - 1 day
Yesterday(t) == t - 1

\* variant: the last day of the window is left out
LoopConditionOffByOne(found, k) ==
    ~found /\ k < MAX_DAYS_BACK

\* line 55: while not file_found and days_back <= MAX_DAYS_BACK
LoopCondition(found, k) ==
    ~found /\ k <= MAX_DAYS_BACK

\* the smallest element of a non-empty set of numbers
Min(S) == CHOOSE x \in S : \A y \in S : x <= y

\* nba_utils.find_file_in_date_range: starting at the reference date, one day back
\* at a time, the first (most recent) date with a file; <<>> when none is within
\* the bound
find_file_in_date_range(files, referenceDate, maxLookback) ==
    LET hits == {k \in 0..maxLookback : referenceDate - k \in files}
    IN  IF hits = {} THEN <<>> ELSE <<referenceDate - Min(hits)>>

\* lines 77-90
find_most_recent_statistics_file(files, t) ==
    find_file_in_date_range(files, t, MAX_DAYS_BACK)

\* --------------------------------------------------------------- csv cells
\* pd.read_csv: an empty cell and the text nan are both read as missing
read_csv_na(cell) == IF cell \in {"", "nan"} THEN NA ELSE cell

\* lines 114-115: .astype(str).str.replace(',', '.').astype(float), in hundredths
odds_to_float(cell) ==
    CASE cell = "1,85" -> 185
      [] cell = "2,00" -> 200

\* lines 108-115: the prediction file as a frame
read_prediction_csv(file) ==
    [i \in 1..Len(file) |->
        [home_team |-> file[i].home_team,
         away_team |-> file[i].away_team,
         home_team_prob |-> file[i].home_team_prob,
         odds1 |-> odds_to_float(file[i].odds1),
         odds2 |-> odds_to_float(file[i].odds2),
         result |-> read_csv_na(file[i].result),
         date |-> file[i].date]]

\* line 122: the combined file as a frame (it holds the accuracy column too)
read_combined_csv(file) ==
    [i \in 1..Len(file) |-> [file[i] EXCEPT !.result = read_csv_na(@)]]

\* variant: the snapshot of the run's own date is read
CombinedFilePathOfToday(last, t) == <<t>>

\* line 118: combined_nba_predictions_acc_{last_prediction}.csv
CombinedFilePath(last, t) == last

\* lines 120-125: the prior snapshot, an empty frame when the file is missing
PriorSnapshot(path, files) ==
    IF path[1] \in DOMAIN files THEN read_combined_csv(files[path[1]]) ELSE <<>>

\* ------------------------------------------------------------------ the merge
RECURSIVE InsertByDate(_, _)
\* a row takes its place after the rows that are not older than it
InsertByDate(s, r) ==
    IF s = <<>> THEN <<r>>
    ELSE IF Head(s).date >= r.date THEN <<Head(s)>> \o InsertByDate(Tail(s), r)
    ELSE <<r>> \o s

RECURSIVE sort_values(_)
\* line 132: sort_values(by='date', ascending=False); ties keep their order
sort_values(df) ==
    IF df = <<>> THEN <<>>
    ELSE InsertByDate(sort_values(SubSeq(df, 1, Len(df) - 1)), df[Len(df)])

\* line 135: combined_df[columns_to_display]
SelectColumns(df) ==
    [i \in 1..Len(df) |->
        [home_team |-> df[i].home_team,
         away_team |-> df[i].away_team,
         home_team_prob |-> df[i].home_team_prob,
         odds1 |-> df[i].odds1,
         odds2 |-> df[i].odds2,
         result |-> df[i].result,
         date |-> df[i].date]]

\* line 128: predict_file_df['accuracy'] = np.nan
WithAccuracyNaN(df) ==
    [i \in 1..Len(df) |->
        [home_team |-> df[i].home_team,
         away_team |-> df[i].away_team,
         home_team_prob |-> df[i].home_team_prob,
         odds1 |-> df[i].odds1,
         odds2 |-> df[i].odds2,
         result |-> df[i].result,
         date |-> df[i].date,
         accuracy |-> NaN]]

\* variant: the prior snapshot is not concatenated
MergeDroppingPrior(prior, predict_file_df) ==
    SelectColumns(sort_values(WithAccuracyNaN(predict_file_df)))

\* lines 127-135: concat, sort by date, select the columns
Merge(prior, predict_file_df) ==
    SelectColumns(sort_values(prior \o WithAccuracyNaN(predict_file_df)))

\* ---------------------------------------------------------- reconciliation
\* line 161: daily_games_df[daily_games_df['season'] == CURRENT_SEASON]
FilterSeason(records) == SelectSeq(records, LAMBDA r : r.season = CURRENT_SEASON)

\* variant: the disjunction without its parentheses
MaskLooseDate(row, date, winning_team) ==
    (row.date = date /\ row.home_team = winning_team) \/ row.away_team = winning_team

\* lines 174-176: the rows of the date in which the winning team plays
Mask(row, date, winning_team) ==
    row.date = date /\ (row.home_team = winning_team \/ row.away_team = winning_team)

\* variant: the assignment also overwrites home_team
ApplyOutcomeMovingTeam(df, rec) ==
    IF rec.won = 1
    THEN [i \in 1..Len(df) |->
            IF Mask(df[i], rec.date, rec.team)
            THEN [df[i] EXCEPT !.result = rec.team, !.home_team = rec.team]
            ELSE df[i]]
    ELSE df

\* lines 169-178: the body of the loop for one row of the games data
ApplyOutcome(df, rec) ==
    IF rec.won = 1
    THEN [i \in 1..Len(df) |->
            IF Mask(df[i], rec.date, rec.team)
            THEN [df[i] EXCEPT !.result = rec.team]
            ELSE df[i]]
    ELSE df

RECURSIVE Reconcile(_, _)
\* lines 168-178: the whole loop over the records, in their order
Reconcile(df, records) ==
    IF records = <<>> THEN df
    ELSE Reconcile(ApplyOutcome(df, Head(records)), Tail(records))

\* ------------------------------------------------------------------ scoring
\* line 181: pd.to_numeric(errors='coerce')
to_numeric(cell) == IF cell = NonNumeric THEN NaN ELSE cell

\* lines 188-190: astype(str) turns a missing value into the text nan
astype_str(cell) == IF cell = NA THEN "nan" ELSE cell

\* a comparison with NaN is False
Ge(x, y) == x # NaN /\ x >= y
Gt(x, y) == x # NaN /\ x > y
Lt(x, y) == x # NaN /\ x < y

\* variant: > in place of >=
HomeTeamCorrectStrict(row) == Gt(row.home_team_prob, 50) /\ row.result = row.home_team

\* line 193 (probabilities in hundredths)
HomeTeamCorrect(row) == Ge(row.home_team_prob, 50) /\ row.result = row.home_team

\* line 194
AwayTeamCorrect(row) == Lt(row.home_team_prob, 50) /\ row.result = row.away_team

\* lines 181-197: the conversions and the accuracy column
ScoreRow(row) ==
    LET r == [row EXCEPT !.home_team_prob = to_numeric(@),
                         !.result = astype_str(@),
                         !.home_team = astype_str(@),
                         !.away_team = astype_str(@)]
    IN  [home_team |-> r.home_team,
         away_team |-> r.away_team,
         home_team_prob |-> r.home_team_prob,
         odds1 |-> r.odds1,
         odds2 |-> r.odds2,
         result |-> r.result,
         date |-> r.date,
         accuracy |-> IF HomeTeamCorrect(r) \/ AwayTeamCorrect(r) THEN 1 ELSE 0]

RECURSIVE SumAccuracy(_)
SumAccuracy(df) == IF df = <<>> THEN 0 ELSE Head(df).accuracy + SumAccuracy(Tail(df))

\* line 200: season_2025_df['accuracy'].mean()
Mean(df) == [sum |-> SumAccuracy(df), count |-> Len(df)]

\* line 220: a row survives dropna() when none of its cells is missing
NotNa(row) ==
    /\ row.home_team_prob # NaN
    /\ row.result # NA
    /\ row.home_team # NA
    /\ row.away_team # NA

\* lines 219-220
dropna(df) == SelectSeq(df, NotNa)

\* variant: the snapshot that was read is overwritten
SaveFilePathOfPrediction(last, t) == last

\* line 215: combined_nba_predictions_acc_{today_str_format}.csv
SaveFilePath(last, t) == <<t>>

\* ------------------------------------------------------------------ inputs
\* a row of a prediction file as the predictor writes it: result still empty
PredRow(h, a, p, d) ==
    [home_team |-> h, away_team |-> a, home_team_prob |-> p,
     odds1 |-> "1,85", odds2 |-> "2,00", result |-> "", date |-> d]

\* a row of the games data
Outcome(d, t, w, s) == [date |-> d, team |-> t, won |-> w, season |-> s]

\* the prediction files the predictor may write on day d: games of the day or
\* of the day after, a cell that is no number, a matchup written twice
PredictionBatches(d) ==
    { <<PredRow("A", "B", 70, d)>>,
      <<PredRow("A", "B", 40, d + 1)>>,
      <<PredRow("A", "B", NonNumeric, d)>>,
      <<PredRow("B", "A", 50, d), PredRow("B", "A", 50, d)>> }

\* the games data of day t: the games of the day before
StatisticsContents(t) ==
    { <<Outcome(t - 1, "A", 1, CURRENT_SEASON), Outcome(t - 1, "B", 0, CURRENT_SEASON)>>,
      <<Outcome(t - 1, "B", 1, CURRENT_SEASON)>> }

SeqsUpTo(S, n) == UNION { [1..k -> S] : k \in 0..n }

\* ----------------------------------------------------------- the environment
\* 3_lightgbm_prediction.py writes the prediction file of the day
GenPrediction ==
    /\ pc = "idle"
    /\ today \notin DOMAIN predFiles
    /\ Cardinality(DOMAIN predFiles) < MaxPredFiles
    /\ \E b \in PredictionBatches(today) : predFiles' = (today :> b) @@ predFiles
    /\ UNCHANGED <<today, statFiles, combinedFiles, pc, runVars>>

\* the games data of the day is downloaded
GenStatistics ==
    /\ pc = "idle"
    /\ today \notin DOMAIN statFiles
    /\ Cardinality(DOMAIN statFiles) < MaxStatFiles
    /\ \E c \in StatisticsContents(today) : statFiles' = (today :> c) @@ statFiles
    /\ UNCHANGED <<today, predFiles, combinedFiles, pc, runVars>>

\* the script is started again on a later day
NextDay ==
    /\ pc = "idle"
    /\ today < MaxDay
    /\ today' = today + 1
    /\ UNCHANGED <<fsVars, pc, runVars>>

\* ------------------------------------------------------------------- main()
PredictionFound(file) == file # <<>>

\* variant: the result of the lookup is not tested
StatisticsAlwaysFound(date) == TRUE

\* line 240: if most_recent_date
StatisticsFound(date) == date # <<>>

\* lines 230, 52-53: main() calls find_most_recent_prediction_file()
StartSearch ==
    /\ pc = "idle"
    /\ days_back' = 0
    /\ file_found' = FALSE
    /\ pc' = "search"
    /\ UNCHANGED <<today, fsVars, date_to_check, predict_file, last_prediction,
                   combined_file_path, combined_df, most_recent_date, daily_games_df, idx,
                   season_2025_df, overall_accuracy, save_file_path>>

\* lines 55-72: one iteration of the loop
CheckDate ==
    /\ pc = "search"
    /\ LoopCondition(file_found, days_back)
    /\ LET date == Yesterday(today) - days_back
       IN  /\ date_to_check' = <<date>>
           /\ IF date \in DOMAIN predFiles
              THEN /\ file_found' = TRUE
                   /\ predict_file' = <<date>>
                   /\ last_prediction' = <<date>>
                   /\ days_back' = days_back
                   /\ pc' = IF PredictionFound(<<date>>) THEN "process" ELSE "no_prediction"
              ELSE /\ days_back' = days_back + 1
                   /\ UNCHANGED <<file_found, predict_file, last_prediction, pc>>
    /\ UNCHANGED <<today, fsVars, combined_file_path, combined_df, most_recent_date,
                   daily_games_df, idx, season_2025_df, overall_accuracy, save_file_path>>

\* lines 74-75, 252-253: the loop is over, return None, None
SearchExhausted ==
    /\ pc = "search"
    /\ ~LoopCondition(file_found, days_back)
    /\ predict_file' = <<>>
    /\ last_prediction' = <<>>
    /\ pc' = "no_prediction"
    /\ UNCHANGED <<today, fsVars, days_back, file_found, date_to_check,
                   combined_file_path, combined_df, most_recent_date, daily_games_df, idx,
                   season_2025_df, overall_accuracy, save_file_path>>

\* lines 234, 92-139
ProcessPredictionFile ==
    /\ pc = "process"
    /\ LET predict_file_df == read_prediction_csv(predFiles[predict_file[1]])
           path == CombinedFilePath(last_prediction, today)
       IN  /\ combined_file_path' = path
           /\ combined_df' = Merge(PriorSnapshot(path, combinedFiles), predict_file_df)
    /\ pc' = "find_statistics"
    /\ UNCHANGED <<today, fsVars, days_back, file_found, date_to_check, predict_file,
                   last_prediction, most_recent_date,
                   daily_games_df, idx, season_2025_df, overall_accuracy, save_file_path>>

\* lines 238-249
FindStatistics ==
    /\ pc = "find_statistics"
    /\ LET d == find_most_recent_statistics_file(DOMAIN statFiles, today)
       IN  /\ most_recent_date' = d
           /\ pc' = IF StatisticsFound(d) THEN "update" ELSE "no_statistics"
    /\ UNCHANGED <<today, fsVars, days_back, file_found, date_to_check, predict_file,
                   last_prediction,
                   combined_file_path, combined_df, daily_games_df, idx, season_2025_df,
                   overall_accuracy, save_file_path>>

\* lines 152-165: the copy of the ledger and the games data of the season;
\* pd.read_csv raises when nba_games_{most_recent_date}.csv is no file
UpdateStart ==
    /\ pc = "update"
    /\ IF most_recent_date # <<>> /\ most_recent_date[1] \in DOMAIN statFiles
       THEN /\ season_2025_df' = combined_df
            /\ daily_games_df' = FilterSeason(statFiles[most_recent_date[1]])
            /\ idx' = 1
            /\ pc' = "reconcile"
       ELSE /\ pc' = "crashed"
            /\ UNCHANGED <<season_2025_df, daily_games_df, idx>>
    /\ UNCHANGED <<today, fsVars, days_back, file_found, date_to_check, predict_file,
                   last_prediction, combined_file_path, combined_df, most_recent_date,
                   overall_accuracy, save_file_path>>

\* lines 168-178: one iteration of the loop
ReconcileStep ==
    /\ pc = "reconcile"
    /\ idx <= Len(daily_games_df)
    /\ season_2025_df' = ApplyOutcome(season_2025_df, daily_games_df[idx])
    /\ idx' = idx + 1
    /\ UNCHANGED <<today, fsVars, pc, days_back, file_found, date_to_check, predict_file,
                   last_prediction,
                   combined_file_path, combined_df, most_recent_date, daily_games_df,
                   overall_accuracy, save_file_path>>

\* lines 180-201: the loop is over; conversions, accuracy column, overall accuracy
Score ==
    /\ pc = "reconcile"
    /\ idx > Len(daily_games_df)
    /\ LET scored == [i \in 1..Len(season_2025_df) |-> ScoreRow(season_2025_df[i])]
       IN  /\ season_2025_df' = scored
           /\ overall_accuracy' = Mean(scored)
    /\ pc' = "save"
    /\ UNCHANGED <<today, fsVars, days_back, file_found, date_to_check, predict_file,
                   last_prediction,
                   combined_file_path, combined_df, most_recent_date, daily_games_df, idx,
                   save_file_path>>

\* lines 214-225: dropna and to_csv
Save ==
    /\ pc = "save"
    /\ LET path == SaveFilePath(last_prediction, today)
           kept == dropna(season_2025_df)
       IN  /\ save_file_path' = path
           /\ season_2025_df' = kept
           /\ combinedFiles' = (path[1] :> kept) @@ combinedFiles
    /\ pc' = "done"
    /\ UNCHANGED <<today, predFiles, statFiles, days_back, file_found, date_to_check,
                   predict_file, last_prediction,
                   combined_file_path, combined_df, most_recent_date, daily_games_df, idx,
                   overall_accuracy>>

\* lines 244-253: main() returns and the process ends
Exit ==
    /\ pc \in {"done", "no_prediction", "no_statistics", "crashed"}
    /\ pc' = "idle"
    /\ days_back' = 0
    /\ file_found' = FALSE
    /\ date_to_check' = <<>>
    /\ predict_file' = <<>>
    /\ last_prediction' = <<>>
    /\ combined_file_path' = <<>>
    /\ combined_df' = <<>>
    /\ most_recent_date' = <<>>
    /\ daily_games_df' = <<>>
    /\ idx' = 0
    /\ season_2025_df' = <<>>
    /\ overall_accuracy' = NoMean
    /\ save_file_path' = <<>>
    /\ UNCHANGED <<today, fsVars>>

\* ------------------------------------------------------------ specifications
RunInit ==
    /\ pc = "idle"
    /\ days_back = 0
    /\ file_found = FALSE
    /\ date_to_check = <<>>
    /\ predict_file = <<>>
    /\ last_prediction = <<>>
    /\ combined_file_path = <<>>
    /\ combined_df = <<>>
    /\ most_recent_date = <<>>
    /\ daily_games_df = <<>>
    /\ idx = 0
    /\ season_2025_df = <<>>
    /\ overall_accuracy = NoMean
    /\ save_file_path = <<>>

\* the first day: empty directories
Init ==
    /\ today = 1
    /\ predFiles = <<>>
    /\ statFiles = <<>>
    /\ combinedFiles = <<>>
    /\ RunInit

Next ==
    \/ GenPrediction
    \/ GenStatistics
    \/ NextDay
    \/ StartSearch
    \/ CheckDate
    \/ SearchExhausted
    \/ ProcessPredictionFile
    \/ FindStatistics
    \/ UpdateStart
    \/ ReconcileStep
    \/ Score
    \/ Save
    \/ Exit

Spec == Init /\ [][Next]_vars

\* one run of the script on the second day, over every small prediction file,
\* prior snapshot and games data
RunRows ==
    { PredRow("A", "B", p, 1) : p \in {NonNumeric, 40, 50, 70} }
        \cup { PredRow("A", "B", 50, 2), PredRow("B", "A", 40, 1) }

RunOutcomes ==
    { Outcome(1, "A", 1, CURRENT_SEASON), Outcome(1, "B", 1, CURRENT_SEASON),
      Outcome(1, "A", 0, CURRENT_SEASON), Outcome(1, "A", 1, CURRENT_SEASON - 1),
      Outcome(2, "B", 1, CURRENT_SEASON) }

\* a row as an earlier run has persisted it
PersistedRow(h, a, p, res, d) ==
    ScoreRow([home_team |-> h, away_team |-> a, home_team_prob |-> p,
              odds1 |-> 185, odds2 |-> 200, result |-> res, date |-> d])

RunSnapshots ==
    { <<>> } \cup { (1 :> <<PersistedRow("A", "B", 70, res, 1)>>) : res \in {"A", "B", NA} }

RunSpecInit ==
    /\ today = 2
    /\ \E b \in SeqsUpTo(RunRows, MaxBatchLen) : predFiles = (1 :> b)
    /\ \E c \in SeqsUpTo(RunOutcomes, MaxRecords) : statFiles = (2 :> c)
    /\ combinedFiles \in RunSnapshots
    /\ RunInit

RunNext ==
    \/ StartSearch
    \/ CheckDate
    \/ ProcessPredictionFile
    \/ FindStatistics
    \/ UpdateStart
    \/ ReconcileStep
    \/ Score
    \/ Save

SpecRun == RunSpecInit /\ [][RunNext]_vars

\* the lookback alone, over prediction files at both ends of the window
LegacyBatch == <<PredRow("A", "B", 70, 0)>>

EdgeDates == (0..LocatorDays) \cup (MAX_DAYS_BACK..(MAX_DAYS_BACK + LocatorDays))

LocatorInit ==
    /\ today \in (MAX_DAYS_BACK + 2)..(MAX_DAYS_BACK + 1 + LocatorDays)
    /\ \E S \in SUBSET EdgeDates : predFiles = [d \in S |-> LegacyBatch]
    /\ statFiles = <<>>
    /\ combinedFiles = <<>>
    /\ RunInit

LocatorNext ==
    \/ StartSearch
    \/ CheckDate
    \/ SearchExhausted

SpecLocator == LocatorInit /\ [][LocatorNext]_vars

\* ======================================================================
\* Properties
\* ======================================================================
Range(f) == {f[x] : x \in DOMAIN f}

\* ---------------------------------------------------------------------- C1
\* C1: the lookback never tests a date before yesterday - MAX_DAYS_BACK (nor after
\* yesterday); when it ends it has returned the file of the most recent date
\* yesterday - k, 0 <= k <= MAX_DAYS_BACK, that has one, and (None, None) when
\* no date of the window has a file.
C1_BoundedMostRecent ==
    LET D == Yesterday(today)
        hits == {k \in 0..MAX_DAYS_BACK : D - k \in DOMAIN predFiles}
    IN  /\ date_to_check # <<>> =>
              /\ date_to_check[1] >= D - MAX_DAYS_BACK
              /\ date_to_check[1] <= D
        /\ pc \in {"process", "no_prediction"} =>
              IF hits # {}
              THEN /\ pc = "process"
                   /\ predict_file = <<D - Min(hits)>>
                   /\ last_prediction = <<D - Min(hits)>>
              ELSE /\ pc = "no_prediction"
                   /\ predict_file = <<>>
                   /\ last_prediction = <<>>

\* the file is found on the last day of the window, an older file lies behind it
C1_Witness ==
    /\ pc = "process"
    /\ days_back = MAX_DAYS_BACK
    /\ (Yesterday(today) - MAX_DAYS_BACK - 1) \in DOMAIN predFiles

\* ---------------------------------------------------------------------- C2
\* C2: a snapshot is written, and the update stage is reached, only when a
\* prediction file and a statistics file have both been located; a run that found
\* no prediction file or no statistics file ends without writing anything.
C2_SnapshotOnlyAfterBothFound ==
    [][ /\ combinedFiles' # combinedFiles =>
              /\ pc = "save"
              /\ predict_file # <<>> /\ predict_file[1] \in DOMAIN predFiles
              /\ most_recent_date # <<>> /\ most_recent_date[1] \in DOMAIN statFiles
        /\ pc' \in {"update", "reconcile", "save", "done"} =>
              /\ predict_file' # <<>>
              /\ most_recent_date' # <<>>
        /\ pc \in {"no_prediction", "no_statistics"} =>
              /\ combinedFiles' = combinedFiles
              /\ pc' = "idle" ]_vars

\* a run that merged a prediction file, found no statistics file and wrote nothing
C2_Witness ==
    /\ pc = "no_statistics"
    /\ predict_file # <<>>
    /\ most_recent_date = <<>>
    /\ today \notin DOMAIN combinedFiles

\* ---------------------------------------------------------------------- C3
\* C3: a scored row has accuracy 1 exactly when home_team_prob >= 0.5 and the
\* result is the home team, or home_team_prob < 0.5 and the result is the away
\* team, and 0 otherwise; an unresolved row has 0, and 0.5 counts for the home team.
C3_AccuracyPredicate ==
    pc = "save" =>
        \A i \in 1..Len(season_2025_df) :
            LET r == season_2025_df[i]
                numeric == r.home_team_prob # NaN
                correct ==
                    \/ numeric /\ r.home_team_prob >= 50 /\ r.result = r.home_team
                    \/ numeric /\ r.home_team_prob < 50 /\ r.result = r.away_team
            IN  /\ r.accuracy = IF correct THEN 1 ELSE 0
                /\ r.result = "nan" => r.accuracy = 0
                /\ (r.home_team_prob = 50 /\ r.result = r.home_team) => r.accuracy = 1

\* a row at exactly 0.5 won by the home team, next to an unresolved row
C3_Witness ==
    /\ pc = "save"
    /\ \E i \in 1..Len(season_2025_df) :
          /\ season_2025_df[i].home_team_prob = 50
          /\ season_2025_df[i].result = season_2025_df[i].home_team
          /\ season_2025_df[i].accuracy = 1
    /\ \E i \in 1..Len(season_2025_df) :
          /\ season_2025_df[i].result = "nan"
          /\ season_2025_df[i].accuracy = 0

\* ---------------------------------------------------------------------- C4
\* two means, each a sum over a count, are the same number (or both undefined)
SameMean(a, b) ==
    IF a.count = 0 \/ b.count = 0 THEN a.count = b.count
    ELSE a.sum * b.count = b.sum * a.count

\* C4: overall_accuracy is the number of correct rows over the number of rows
\* with a resolved result and a numeric home_team_prob.
C4_OverallAccuracyOverResolved ==
    pc = "save" =>
        LET rows == 1..Len(season_2025_df)
            basis == {i \in rows : /\ season_2025_df[i].result # "nan"
                                   /\ season_2025_df[i].home_team_prob # NaN}
            right == {i \in rows : season_2025_df[i].accuracy = 1}
        IN  SameMean(overall_accuracy,
                     [sum |-> Cardinality(right), count |-> Cardinality(basis)])

\* ---------------------------------------------------------------------- C5
\* C5: every row of every persisted snapshot is resolved and scored: its result
\* is its home team or its away team, its home_team_prob is a number, its accuracy
\* is 0 or 1.
C5_PersistedRowsResolved ==
    \A d \in DOMAIN combinedFiles :
        \A i \in 1..Len(combinedFiles[d]) :
            LET r == combinedFiles[d][i]
            IN  /\ r.result \in {r.home_team, r.away_team}
                /\ r.home_team_prob # NaN
                /\ r.accuracy \in {0, 1}

\* ---------------------------------------------------------------------- C6
\* what identifies a prediction record: every column but result and accuracy
RecordKey(r) ==
    [home_team |-> r.home_team, away_team |-> r.away_team,
     home_team_prob |-> r.home_team_prob, odds1 |-> r.odds1, odds2 |-> r.odds2,
     date |-> r.date]

Keys(df) == {RecordKey(df[i]) : i \in 1..Len(df)}

Max(S) == CHOOSE x \in S : \A y \in S : x >= y

\* every day from the first persisting run to the latest has a persisted snapshot
Gapless ==
    \A d \in Min(DOMAIN combinedFiles)..Max(DOMAIN combinedFiles) : d \in DOMAIN combinedFiles

\* C6: when the runs are daily and each persists, every record persisted by an
\* earlier run is in the snapshot of the latest run; a run reads the snapshot
\* keyed by the date of the prediction file it found and writes the one keyed by
\* its own date.
C6_Accumulation ==
    /\ (combinedFiles # <<>> /\ Gapless) =>
          \A d \in DOMAIN combinedFiles :
              Keys(combinedFiles[d]) \subseteq Keys(combinedFiles[Max(DOMAIN combinedFiles)])
    /\ pc = "done" =>
          /\ combined_file_path = last_prediction
          /\ save_file_path = <<today>>
          /\ today \in DOMAIN combinedFiles
          /\ Keys(combinedFiles[today]) =
                {k \in Keys(combined_df) : k.home_team_prob # NonNumeric}

\* a run has read the snapshot of an earlier run, added records and persisted
C6_Witness ==
    /\ pc = "done"
    /\ Gapless
    /\ combined_file_path[1] \in DOMAIN combinedFiles
    /\ combined_file_path[1] < today
    /\ combinedFiles[combined_file_path[1]] # <<>>
    /\ Cardinality(Keys(combinedFiles[today])) >
          Cardinality(Keys(combinedFiles[combined_file_path[1]]))

\* ---------------------------------------------------------------------- C7
Triple(r) == <<r.date, r.home_team, r.away_team>>

UniqueTriples(df) ==
    \A i, j \in 1..Len(df) : i # j => Triple(df[i]) # Triple(df[j])

NoRepeatWithinFiles == \A d \in DOMAIN predFiles : UniqueTriples(predFiles[d])

NoRepeatAcrossFiles ==
    \A d1, d2 \in DOMAIN predFiles :
        d1 # d2 =>
            \A i \in 1..Len(predFiles[d1]) :
                \A j \in 1..Len(predFiles[d2]) :
                    Triple(predFiles[d1][i]) # Triple(predFiles[d2][j])

SnapshotsUnique == \A d \in DOMAIN combinedFiles : UniqueTriples(combinedFiles[d])

\* C7 as claimed: when no prediction file holds a triple twice, no snapshot does.
C7_UniqueUnlessFileRepeats == NoRepeatWithinFiles => SnapshotsUnique

\* C7 as amended: when no triple occurs twice in the prediction files, in one
\* file or in two, no snapshot holds a triple twice.
C7_UniqueUnlessSourceRepeats ==
    (NoRepeatWithinFiles /\ NoRepeatAcrossFiles) => SnapshotsUnique

\* a snapshot built from two prediction files that share no triple
C7_Witness ==
    /\ NoRepeatWithinFiles
    /\ NoRepeatAcrossFiles
    /\ Cardinality(DOMAIN predFiles) >= 2
    /\ \E d \in DOMAIN combinedFiles :
          Cardinality({Triple(combinedFiles[d][i]) : i \in 1..Len(combinedFiles[d])}) >= 2

\* ---------------------------------------------------------------------- C8
\* the batch and the prior snapshot of the merge that has just been made
MergedBatch == read_prediction_csv(predFiles[predict_file[1]])
MergedPrior == PriorSnapshot(combined_file_path, combinedFiles)

\* C8 as claimed: merging the batch into a ledger that already holds it yields
\* the same rows, as many as before.
C8_MergeIdempotent ==
    pc = "find_statistics" =>
        LET again == Merge(combined_df, MergedBatch)
        IN  /\ Range(again) = Range(combined_df)
            /\ Len(again) = Len(combined_df)

\* C8 as amended: merging the batch again yields the same set of distinct rows,
\* and appends the batch once more: |S| + 2|B| rows after the second merge.
C8_MergeAppends ==
    pc = "find_statistics" =>
        LET again == Merge(combined_df, MergedBatch)
        IN  /\ Range(again) = Range(combined_df)
            /\ Len(combined_df) = Len(MergedPrior) + Len(MergedBatch)
            /\ Len(again) = Len(MergedPrior) + 2 * Len(MergedBatch)

\* a batch of two rows merged into a snapshot that holds a row
C8_Witness ==
    /\ pc = "find_statistics"
    /\ Len(MergedBatch) = 2
    /\ Len(MergedPrior) > 0

\* ---------------------------------------------------------------------- C9
\* C9: during the loop over the games data the ledger keeps its rows and every
\* column but result, and applying the record just applied once more changes
\* nothing.
C9_ReconcileFrame ==
    pc = "reconcile" =>
        /\ Len(season_2025_df) = Len(combined_df)
        /\ \A i \in 1..Len(combined_df) :
              RecordKey(season_2025_df[i]) = RecordKey(combined_df[i])
        /\ idx > 1 =>
              ApplyOutcome(season_2025_df, daily_games_df[idx - 1]) = season_2025_df

\* the loop is over and has set the result of a row
C9_Witness ==
    /\ pc = "reconcile"
    /\ idx > Len(daily_games_df)
    /\ idx > 2
    /\ \E i \in 1..Len(combined_df) : season_2025_df[i].result # combined_df[i].result

\* ---------------------------------------------------------------------- C10
Winners == SelectSeq(daily_games_df, LAMBDA r : r.won = 1)

Orders(n) == {f \in [1..n -> 1..n] : \A i, j \in 1..n : f[i] = f[j] => i = j}

Results(df) == [i \in 1..Len(df) |-> df[i].result]

OrderIndependent ==
    \A f \in Orders(Len(Winners)) :
        Results(Reconcile(season_2025_df, [i \in 1..Len(Winners) |-> Winners[f[i]]]))
            = Results(Reconcile(season_2025_df, Winners))

\* no row of the ledger plays, on its date, two teams that both have won
NoConflictingWinners ==
    \A i \in 1..Len(season_2025_df) :
        \A j, k \in 1..Len(Winners) :
            LET r == season_2025_df[i]
            IN  (/\ Winners[j].date = r.date /\ Winners[k].date = r.date
                 /\ Winners[j].team \in {r.home_team, r.away_team}
                 /\ Winners[k].team \in {r.home_team, r.away_team})
                    => Winners[j].team = Winners[k].team

\* C10 as claimed: every order of the records with won = 1 gives every row the
\* same result.
C10_OrderIndependent == (pc = "reconcile" /\ idx = 1) => OrderIndependent

\* C10 as amended: the same, when the games data never names both teams of a row
\* as winners on the date of the row.
C10_OrderIndependentNoConflict ==
    (pc = "reconcile" /\ idx = 1 /\ NoConflictingWinners) => OrderIndependent

\* two winners of different teams, of which one sets the result of a row
C10_Witness ==
    /\ pc = "reconcile"
    /\ idx = 1
    /\ NoConflictingWinners
    /\ Len(Winners) = 2
    /\ Winners[1].team # Winners[2].team
    /\ Results(Reconcile(season_2025_df, Winners)) # Results(season_2025_df)

====
